---- MODULE Spec2Model ----
(***************************************************************************)
(* Model of the generic resource pool of pool.go: Pool.Get, Pool.Put,      *)
(* Pool.Cleanup and the pool maintainer goroutine, with the mutex, the     *)
(* unbuffered request channel and the one-slot notification channel.       *)
(*                                                                         *)
(* Callers are goroutines that call Get and Put concurrently.  Every       *)
(* section of code that runs between two blocking or externally visible    *)
(* points is one action.  The variables from call on only observe the run  *)
(* (what the tests count with ctrCalls and dstrCall, and what each call    *)
(* saw and returned); no guard of the pool reads them.                     *)
(*                                                                         *)
(* Spec lets every caller call concurrently.  SpecSolo is the pool used by *)
(* one goroutine, as in pool_test.go, with a longer run and a log of the   *)
(* calls that returned.                                                    *)
(***************************************************************************)
EXTENDS Integers, FiniteSets, Sequences, TLC

\* ------------------------------------------------------------- bounds
NumCallers == 2
MaxCalls == 4
MaxSoloCalls == 6
MaxFairCalls == 3
MaxKeys == 3
MaxCap == 2

Callers == 1..NumCallers

\* maxSize of New: -1 is the unlimited pool
Unlimited == 0 - 1
Capacities == {Unlimited} \cup (1..MaxCap)

\* the zero value of the resource type ("var defaultValue T")
defaultValue == 0

ErrNil == "nil"
ErrResourceUnavailable == "ErrResourceUnavailable"
creationErr == "creationErr"

\* cap(pool.requests): make(chan Request[T]) is unbuffered
RequestsCap == 0
\* cap(pool.returnNotifs): make(chan struct{}, 1)
ReturnNotifsCap == 1

VARIABLES
  max,            \* pool.max
  objsInUse,      \* pool.objsInUse
  idle,           \* pool.idle: a function from int64 keys to resources
  m,              \* pool.m: TRUE when the mutex is locked
  requestsBuf,    \* the buffer of pool.requests (capacity RequestsCap)
  requestsClosed, \* close(pool.requests) was called
  returnNotifs,   \* number of elements buffered in pool.returnNotifs
  mpc,            \* the maintainer's position
  mreq,           \* the caller whose Request the maintainer holds (0: none)
  hnd,            \* what the maintainer's notification handler has done so far
  pc,             \* each caller's position
  held,           \* resources each caller owns (got from Get or made itself)
  checkedOut,     \* resources Get handed out that no Put has admitted back
  nextRes,        \* the next fresh resource
  active,         \* the callers that call Get and Put in this run
  budget,         \* the number of calls of this run
  call,           \* what each caller's call in progress has seen and done
  ret,            \* the call that returned in the last step, if one did
  hist,           \* SpecSolo: the calls that returned, in order
  calls,          \* number of calls of Get and Put begun
  anyPut,         \* Put was called
  anyFail,        \* the constructor returned an error
  ctrCalls,       \* constructor invocations
  createDecisions,\* Gets that found idle empty and room for a new resource
  destructed,     \* for each resource, the number of destructor invocations
  cleaned         \* Cleanup was called

vars == <<max, objsInUse, idle, m, requestsBuf, requestsClosed, returnNotifs,
          mpc, mreq, hnd, pc, held, checkedOut, nextRes, active, budget, call, ret, hist, calls,
          anyPut, anyFail, ctrCalls, createDecisions, destructed, cleaned>>

poolVars == <<max, objsInUse, idle, m, requestsBuf, requestsClosed, returnNotifs>>
maintVars == <<mpc, mreq, hnd>>
runVars == <<active, budget>>
countVars == <<anyPut, anyFail, ctrCalls, createDecisions, destructed, cleaned>>

\* ------------------------------------------------------------- helpers
NoCall ==
  [op |-> "none", arg |-> defaultValue, branch |-> "none", cnt |-> 0, idleN |-> 0,
   ctr |-> 0, ctrIdle |-> 0, failed |-> FALSE, pend |-> FALSE, delta |-> 0,
   touched |-> FALSE, timed |-> FALSE, waited |-> 0]

NoRet ==
  [t |-> 0, op |-> "none", arg |-> defaultValue, res |-> defaultValue,
   err |-> ErrNil, ok |-> FALSE, branch |-> "none", cnt |-> 0, idleN |-> 0,
   ctr |-> 0, ctrIdle |-> 0, failed |-> FALSE, pend |-> FALSE, delta |-> 0,
   touched |-> FALSE, timed |-> FALSE, waited |-> 0]

\* the call rec of caller t returns the resource r, the error e or the boolean b
Returned(t, rec, r, e, b) ==
  [t |-> t, op |-> rec.op, arg |-> rec.arg, res |-> r, err |-> e, ok |-> b,
   branch |-> rec.branch, cnt |-> rec.cnt, idleN |-> rec.idleN, ctr |-> rec.ctr,
   ctrIdle |-> rec.ctrIdle, failed |-> rec.failed, pend |-> rec.pend,
   delta |-> rec.delta, touched |-> rec.touched, timed |-> rec.timed,
   waited |-> rec.waited]

\* the handler of lines 103-110 has not run: lock and unlock calls it made,
\* whether it holds the lock, entries it deleted, the resource in its hand
NoHandler ==
  [locks |-> 0, unlocks |-> 0, holds |-> FALSE, removed |-> 0,
   fulfilled |-> FALSE, r |-> defaultValue]

Log(rec) == IF Cardinality(active) = 1 THEN Append(hist, rec) ELSE hist

\* len(pool.idle)
LenIdle == Cardinality(DOMAIN idle)

\* a delete that removes nothing
DeleteNothing(mp, key) == mp

\* delete(pool.idle, key)
Delete(mp, key) == [k \in (DOMAIN mp) \ {key} |-> mp[k]]

\* pool.idle[key] = resource
Store(mp, key, r) == [k \in (DOMAIN mp) \cup {key} |-> IF k = key THEN r ELSE mp[k]]

\* len(pool.requests): the number of requests queued in the channel's buffer
LenRequests == Len(requestsBuf)

\* ------------------------------------------------------------- Init
\* New: an empty pool, the maintainer launched and waiting for requests
NewPool ==
  /\ max \in Capacities
  /\ objsInUse = 0
  /\ idle = <<>>
  /\ m = FALSE
  /\ requestsBuf = <<>>
  /\ requestsClosed = FALSE
  /\ returnNotifs = 0
  /\ mpc = "range"
  /\ mreq = 0
  /\ hnd = NoHandler
  /\ pc = [t \in Callers |-> "idle"]
  /\ held = [t \in Callers |-> {}]
  /\ checkedOut = {}
  /\ nextRes = 1
  /\ call = [t \in Callers |-> NoCall]
  /\ ret = NoRet
  /\ hist = <<>>
  /\ calls = 0
  /\ anyPut = FALSE
  /\ anyFail = FALSE
  /\ ctrCalls = 0
  /\ createDecisions = 0
  /\ destructed = <<>>
  /\ cleaned = FALSE

Init ==
  /\ NewPool
  /\ active = Callers
  /\ budget = MaxCalls

InitSolo ==
  /\ NewPool
  /\ active = {1}
  /\ budget = MaxSoloCalls

\* ------------------------------------------------------------- Get
\* the emptiness test of line 119 off by one
IdleNotEmptyOffByOne == LenIdle > 1

\* line 119: "(1) If pool is not empty"
IdleNotEmpty == LenIdle > 0

\* the capacity test of line 128 off by one
TooManyResourcesOffByOne == max # Unlimited /\ objsInUse > max

\* the capacity test of line 128 without its test for the unlimited pool
TooManyResourcesAnyMax == objsInUse >= max

\* line 128: "(2) If there are too many existing resources"
TooManyResources == max # Unlimited /\ objsInUse >= max

\* a Get that finds idle empty and the pool unlimited or its counter below max
FindsRoom == LenIdle = 0 /\ (max = Unlimited \/ objsInUse < max)

\* Get returns (r, e) to caller t
GetReturn(t, rec, r, e) ==
  /\ pc' = [pc EXCEPT ![t] = "idle"]
  /\ call' = [call EXCEPT ![t] = NoCall]
  /\ ret' = Returned(t, rec, r, e, FALSE)
  /\ hist' = Log(Returned(t, rec, r, e, FALSE))
  /\ held' = [held EXCEPT ![t] = IF e = ErrNil THEN @ \cup {r} ELSE @]
  /\ checkedOut' = IF e = ErrNil THEN checkedOut \cup {r} ELSE checkedOut

\* line 118: pool.m.Lock() of a new call of Get
GetLock(t) ==
  /\ pc[t] = "idle"
  /\ ~cleaned
  /\ calls < budget
  /\ ~m
  /\ m' = TRUE
  /\ pc' = [pc EXCEPT ![t] = "get_cs"]
  /\ calls' = calls + 1
  /\ call' = [call EXCEPT ![t] = [NoCall EXCEPT !.op = "get"]]
  /\ ret' = NoRet
  /\ UNCHANGED <<max, objsInUse, idle, requestsBuf, requestsClosed, returnNotifs>>
  /\ UNCHANGED <<maintVars, runVars, countVars, held, checkedOut, nextRes, hist>>

\* a Get that gives capacity back when it hands out an idle resource
GetIdleGivesBack(t) ==
  /\ pc[t] = "get_cs"
  /\ IdleNotEmpty
  /\ \E key \in DOMAIN idle :
       /\ idle' = Delete(idle, key)
       /\ GetReturn(t, [call[t] EXCEPT !.branch = "idle", !.cnt = objsInUse,
                          !.idleN = LenIdle, !.touched = (idle' # idle)],
                    idle[key], ErrNil)
  /\ objsInUse' = objsInUse - 1
  /\ m' = FALSE
  /\ createDecisions' = createDecisions + (IF FindsRoom THEN 1 ELSE 0)
  /\ UNCHANGED <<max, requestsBuf, requestsClosed, returnNotifs>>
  /\ UNCHANGED <<maintVars, runVars, nextRes, calls>>
  /\ UNCHANGED <<anyPut, anyFail, ctrCalls, destructed, cleaned>>

\* lines 119-125: (1) the pool is not empty: hand out some idle resource
GetIdle(t) ==
  /\ pc[t] = "get_cs"
  /\ IdleNotEmpty
  /\ \E key \in DOMAIN idle :
       /\ idle' = Delete(idle, key)
       /\ GetReturn(t, [call[t] EXCEPT !.branch = "idle", !.cnt = objsInUse,
                          !.idleN = LenIdle, !.touched = (idle' # idle)],
                    idle[key], ErrNil)
  /\ m' = FALSE
  /\ createDecisions' = createDecisions + (IF FindsRoom THEN 1 ELSE 0)
  /\ UNCHANGED <<max, objsInUse, requestsBuf, requestsClosed, returnNotifs>>
  /\ UNCHANGED <<maintVars, runVars, nextRes, calls>>
  /\ UNCHANGED <<anyPut, anyFail, ctrCalls, destructed, cleaned>>

\* lines 128-134: (2) the pool is exhausted: make a Request and unlock
GetRequest(t) ==
  /\ pc[t] = "get_cs"
  /\ ~IdleNotEmpty
  /\ TooManyResources
  /\ m' = FALSE
  /\ pc' = [pc EXCEPT ![t] = "get_send"]
  /\ call' = [call EXCEPT ![t] = [@ EXCEPT !.branch = "wait", !.cnt = objsInUse,
                                           !.idleN = LenIdle]]
  /\ ret' = NoRet
  /\ createDecisions' = createDecisions + (IF FindsRoom THEN 1 ELSE 0)
  /\ UNCHANGED <<max, objsInUse, idle, requestsBuf, requestsClosed, returnNotifs>>
  /\ UNCHANGED <<maintVars, runVars, held, checkedOut, nextRes, hist, calls>>
  /\ UNCHANGED <<anyPut, anyFail, ctrCalls, destructed, cleaned>>

\* lines 146-149: (3) free to make a resource: count it, then unlock
GetCreate(t) ==
  /\ pc[t] = "get_cs"
  /\ ~IdleNotEmpty
  /\ ~TooManyResources
  /\ objsInUse' = objsInUse + 1
  /\ m' = FALSE
  /\ pc' = [pc EXCEPT ![t] = "get_factory"]
  /\ call' = [call EXCEPT ![t] = [@ EXCEPT !.branch = "create", !.cnt = objsInUse,
                                           !.idleN = LenIdle,
                                           !.delta = @ + (objsInUse' - objsInUse)]]
  /\ ret' = NoRet
  /\ createDecisions' = createDecisions + (IF FindsRoom THEN 1 ELSE 0)
  /\ UNCHANGED <<max, idle, requestsBuf, requestsClosed, returnNotifs>>
  /\ UNCHANGED <<maintVars, runVars, held, checkedOut, nextRes, hist, calls>>
  /\ UNCHANGED <<anyPut, anyFail, ctrCalls, destructed, cleaned>>

\* lines 151, 160: pool.factoryFn() returns a new resource; Get returns it
GetFactoryOk(t) ==
  /\ pc[t] = "get_factory"
  /\ ctrCalls' = ctrCalls + 1
  /\ nextRes' = nextRes + 1
  /\ GetReturn(t, [call[t] EXCEPT !.ctr = @ + 1, !.ctrIdle = LenIdle],
               nextRes, ErrNil)
  /\ UNCHANGED <<poolVars, maintVars, runVars, calls>>
  /\ UNCHANGED <<anyPut, anyFail, createDecisions, destructed, cleaned>>

\* lines 151-152: pool.factoryFn() returns an error
GetFactoryErr(t) ==
  /\ pc[t] = "get_factory"
  /\ ctrCalls' = ctrCalls + 1
  /\ anyFail' = TRUE
  /\ pc' = [pc EXCEPT ![t] = "get_err_lock"]
  /\ call' = [call EXCEPT ![t] = [@ EXCEPT !.ctr = @ + 1, !.ctrIdle = LenIdle,
                                           !.failed = TRUE]]
  /\ ret' = NoRet
  /\ UNCHANGED <<poolVars, maintVars, runVars, held, checkedOut, nextRes, hist, calls>>
  /\ UNCHANGED <<anyPut, createDecisions, destructed, cleaned>>

\* line 153: pool.m.Lock() on the error path
GetErrLock(t) ==
  /\ pc[t] = "get_err_lock"
  /\ ~m
  /\ m' = TRUE
  /\ pc' = [pc EXCEPT ![t] = "get_err_cs"]
  /\ ret' = NoRet
  /\ UNCHANGED <<max, objsInUse, idle, requestsBuf, requestsClosed, returnNotifs>>
  /\ UNCHANGED <<maintVars, runVars, countVars, held, checkedOut, nextRes, call, hist, calls>>

\* the error path of lines 153-157 without "pool.objsInUse--"
GetRollbackNoDecrement(t) ==
  /\ pc[t] = "get_err_cs"
  /\ objsInUse' = objsInUse
  /\ m' = FALSE
  /\ GetReturn(t, [call[t] EXCEPT !.delta = @ + (objsInUse' - objsInUse)],
               defaultValue, creationErr)
  /\ UNCHANGED <<max, idle, requestsBuf, requestsClosed, returnNotifs>>
  /\ UNCHANGED <<maintVars, runVars, countVars, nextRes, calls>>

\* lines 154-157: roll the counter back, unlock, return the constructor's error
GetRollback(t) ==
  /\ pc[t] = "get_err_cs"
  /\ objsInUse' = objsInUse - 1
  /\ m' = FALSE
  /\ GetReturn(t, [call[t] EXCEPT !.delta = @ + (objsInUse' - objsInUse)],
               defaultValue, creationErr)
  /\ UNCHANGED <<max, idle, requestsBuf, requestsClosed, returnNotifs>>
  /\ UNCHANGED <<maintVars, runVars, countVars, nextRes, calls>>

\* ------------------------------------------------------------- maintainer
\* lines 94-96 and 135: "pool.requests <- req" meets "for req := range
\* pool.requests"; the channel has no buffer, so the send is a hand-over.  The
\* maintainer starts the timer of this request: call[u].timed marks the Gets
\* that are waiting, for the maintainer or for a resource, when it starts.
MaintRecvRequest(t) ==
  /\ pc[t] = "get_send"
  /\ mpc = "range"
  /\ ~requestsClosed
  /\ Len(requestsBuf) = RequestsCap
  /\ mreq' = t
  /\ mpc' = "select"
  /\ hnd' = [hnd EXCEPT !.fulfilled = FALSE]
  /\ pc' = [pc EXCEPT ![t] = "get_wait"]
  /\ call' = [u \in Callers |-> IF pc[u] = "get_send"
                                 THEN [call[u] EXCEPT !.timed = TRUE] ELSE call[u]]
  /\ ret' = NoRet
  /\ UNCHANGED <<poolVars, runVars, countVars, held, checkedOut, nextRes, hist, calls>>

\* lines 100-101: the timer of time.After(pool.waitsForResourceFor) fires.
\* The other case of the select, lines 103-110, needs an element in
\* pool.returnNotifs; NoNotification shows that there never is one, because
\* len(pool.requests) at line 174 is the length of the buffer of a channel that
\* has none.
\* call[u].waited counts, for a waiting Get, the timers that ran from start to
\* end while it waited: each is one whole pool.waitsForResourceFor.
MaintTimeout ==
  /\ mpc = "select"
  /\ mpc' = "send_e"
  /\ call' = [u \in Callers |-> IF call[u].timed
                                 THEN [call[u] EXCEPT !.timed = FALSE, !.waited = @ + 1]
                                 ELSE call[u]]
  /\ ret' = NoRet
  /\ UNCHANGED <<poolVars, runVars, countVars, mreq, hnd, pc, held, checkedOut, nextRes, hist,
                 calls>>

\* a maintainer that ends after the first request it has timed out
MaintSendErrStops ==
  /\ mpc = "send_e"
  /\ pc[mreq] = "get_wait"
  /\ GetReturn(mreq, call[mreq], defaultValue, ErrResourceUnavailable)
  /\ mpc' = "done"
  /\ mreq' = 0
  /\ UNCHANGED <<poolVars, runVars, countVars, hnd, nextRes, calls>>

\* lines 102 and 140-142: "req.e <- ErrResourceUnavailable" meets the select of
\* the waiting Get, which returns the error; the inner loop ends
MaintSendErr ==
  /\ mpc = "send_e"
  /\ pc[mreq] = "get_wait"
  /\ GetReturn(mreq, call[mreq], defaultValue, ErrResourceUnavailable)
  /\ mpc' = "range"
  /\ mreq' = 0
  /\ UNCHANGED <<poolVars, runVars, countVars, hnd, nextRes, calls>>

\* line 94: the range loop ends when pool.requests is closed
MaintExit ==
  /\ mpc = "range"
  /\ requestsClosed
  /\ mpc' = "done"
  /\ ret' = NoRet
  /\ UNCHANGED <<poolVars, runVars, countVars, mreq, hnd, pc, held, checkedOut, nextRes, call,
                 hist, calls>>

\* ------------------------------------------------------------- the handler
\* Lines 103-110, the case of the select that takes a return notification.
\* Spec never reaches it (NoNotification); SpecHandler below starts the
\* maintainer in front of it, with a notification in pool.returnNotifs.

\* line 103: "case <-pool.returnNotifs"
MaintRecvNotif ==
  /\ mpc = "select"
  /\ returnNotifs > 0
  /\ returnNotifs' = returnNotifs - 1
  /\ mpc' = "h_lock"
  /\ ret' = NoRet
  /\ UNCHANGED <<max, objsInUse, idle, m, requestsBuf, requestsClosed>>
  /\ UNCHANGED <<runVars, countVars, mreq, hnd, pc, held, checkedOut, nextRes, call,
                 hist, calls>>

\* line 104: pool.m.Lock()
MaintLock ==
  /\ mpc = "h_lock"
  /\ ~m
  /\ m' = TRUE
  /\ hnd' = [hnd EXCEPT !.locks = @ + 1, !.holds = TRUE]
  /\ mpc' = "h_range"
  /\ ret' = NoRet
  /\ UNCHANGED <<max, objsInUse, idle, requestsBuf, requestsClosed, returnNotifs>>
  /\ UNCHANGED <<runVars, countVars, mreq, pc, held, checkedOut, nextRes, call,
                 hist, calls>>

\* lines 105-107: the range loop produces an entry; delete it, then
\* pool.m.Unlock().  Unlock of a mutex that is not locked is the runtime's
\* fatal error "sync: unlock of unlocked mutex": the program ends.
MaintRangeBody ==
  /\ mpc = "h_range"
  /\ LenIdle > 0
  /\ \E key \in DOMAIN idle :
       /\ idle' = Delete(idle, key)
       /\ hnd' = [hnd EXCEPT !.removed = @ + 1, !.r = idle[key],
                             !.unlocks = IF m THEN @ + 1 ELSE @,
                             !.holds = FALSE]
  /\ m' = FALSE
  /\ mpc' = IF m THEN "h_send" ELSE "fatal"
  /\ ret' = NoRet
  /\ UNCHANGED <<max, objsInUse, requestsBuf, requestsClosed, returnNotifs>>
  /\ UNCHANGED <<runVars, countVars, mreq, pc, held, checkedOut, nextRes, call,
                 hist, calls>>

\* lines 108-109 and 138-139: "req.c <- r" meets the select of the waiting Get,
\* which returns r; fulfilled = true
MaintSendRes ==
  /\ mpc = "h_send"
  /\ pc[mreq] = "get_wait"
  /\ GetReturn(mreq, call[mreq], hnd.r, ErrNil)
  /\ hnd' = [hnd EXCEPT !.fulfilled = TRUE]
  /\ mpc' = "h_range"
  /\ UNCHANGED <<poolVars, runVars, countVars, mreq, nextRes, calls>>

\* lines 105 and 97: the range loop has no entry left; the inner loop ends if
\* the request was fulfilled and goes back to the select if not
MaintRangeDone ==
  /\ mpc = "h_range"
  /\ LenIdle = 0
  /\ mpc' = IF hnd.fulfilled THEN "range" ELSE "select"
  /\ mreq' = IF hnd.fulfilled THEN 0 ELSE mreq
  /\ ret' = NoRet
  /\ UNCHANGED <<poolVars, runVars, countVars, hnd, pc, held, checkedOut, nextRes, call,
                 hist, calls>>

\* ------------------------------------------------------------- Put
\* line 168: "If there is space in the pool"
HasSpace == max = Unlimited \/ objsInUse <= max

\* Put returns b to caller t
PutReturn(t, rec, b) ==
  /\ pc' = [pc EXCEPT ![t] = "idle"]
  /\ call' = [call EXCEPT ![t] = NoCall]
  /\ ret' = Returned(t, rec, defaultValue, ErrNil, b)
  /\ hist' = Log(Returned(t, rec, defaultValue, ErrNil, b))

\* line 166: pool.m.Lock() of a new call Put(x); x is a resource the caller
\* got from Get, or one it made itself
PutLock(t, x) ==
  /\ pc[t] = "idle"
  /\ ~cleaned
  /\ calls < budget
  /\ ~m
  /\ x \in held[t] \cup {nextRes}
  /\ m' = TRUE
  /\ pc' = [pc EXCEPT ![t] = "put_cs"]
  /\ calls' = calls + 1
  /\ anyPut' = TRUE
  /\ nextRes' = IF x = nextRes THEN nextRes + 1 ELSE nextRes
  /\ held' = [held EXCEPT ![t] = @ \cup {x}]
  /\ UNCHANGED checkedOut
  /\ call' = [call EXCEPT ![t] = [NoCall EXCEPT !.op = "put", !.arg = x]]
  /\ ret' = NoRet
  /\ UNCHANGED <<max, objsInUse, idle, requestsBuf, requestsClosed, returnNotifs>>
  /\ UNCHANGED <<maintVars, runVars, hist>>
  /\ UNCHANGED <<anyFail, ctrCalls, createDecisions, destructed, cleaned>>

\* lines 168-171: store the resource under the key objsInUse, count it, unlock
PutAdmit(t) ==
  /\ pc[t] = "put_cs"
  /\ HasSpace
  /\ idle' = Store(idle, objsInUse, call[t].arg)
  /\ objsInUse' = objsInUse + 1
  /\ m' = FALSE
  /\ pc' = [pc EXCEPT ![t] = "put_notify"]
  /\ held' = [held EXCEPT ![t] = @ \ {call[t].arg}]
  /\ checkedOut' = checkedOut \ {call[t].arg}
  /\ call' = [call EXCEPT ![t] = [@ EXCEPT !.branch = "admit", !.cnt = objsInUse,
                                           !.idleN = LenIdle,
                                           !.delta = @ + (objsInUse' - objsInUse),
                                           !.touched = (idle' # idle),
                                           !.pend = (mpc = "select")]]
  /\ ret' = NoRet
  /\ UNCHANGED <<max, requestsBuf, requestsClosed, returnNotifs>>
  /\ UNCHANGED <<maintVars, runVars, countVars, nextRes, hist, calls>>

\* lines 174-177: notify the maintainer if requests are queued, return true
PutNotify(t) ==
  /\ pc[t] = "put_notify"
  /\ LenRequests > 0 => returnNotifs < ReturnNotifsCap
  /\ returnNotifs' = IF LenRequests > 0 THEN returnNotifs + 1 ELSE returnNotifs
  /\ PutReturn(t, call[t], TRUE)
  /\ UNCHANGED <<max, objsInUse, idle, m, requestsBuf, requestsClosed>>
  /\ UNCHANGED <<maintVars, runVars, countVars, held, checkedOut, nextRes, calls>>

\* a rejecting branch that counts the resource it refuses
PutRejectCounts(t) ==
  /\ pc[t] = "put_cs"
  /\ ~HasSpace
  /\ objsInUse' = objsInUse + 1
  /\ m' = FALSE
  /\ PutReturn(t, [call[t] EXCEPT !.branch = "reject", !.cnt = objsInUse,
                                  !.idleN = LenIdle], FALSE)
  /\ UNCHANGED <<max, idle, requestsBuf, requestsClosed, returnNotifs>>
  /\ UNCHANGED <<maintVars, runVars, countVars, held, checkedOut, nextRes, calls>>

\* a rejecting branch that destructs the resource it refuses
PutRejectDestructs(t) ==
  /\ pc[t] = "put_cs"
  /\ ~HasSpace
  /\ m' = FALSE
  /\ destructed' = [r \in DOMAIN destructed \cup {call[t].arg} |->
                      IF r \in DOMAIN destructed THEN destructed[r] ELSE 1]
  /\ PutReturn(t, [call[t] EXCEPT !.branch = "reject", !.cnt = objsInUse,
                                  !.idleN = LenIdle], FALSE)
  /\ UNCHANGED <<max, objsInUse, idle, requestsBuf, requestsClosed, returnNotifs>>
  /\ UNCHANGED <<maintVars, runVars, held, checkedOut, nextRes, calls>>
  /\ UNCHANGED <<anyPut, anyFail, ctrCalls, createDecisions, cleaned>>

\* lines 180-181: no space: unlock, return false
PutReject(t) ==
  /\ pc[t] = "put_cs"
  /\ ~HasSpace
  /\ m' = FALSE
  /\ PutReturn(t, [call[t] EXCEPT !.branch = "reject", !.cnt = objsInUse,
                                  !.idleN = LenIdle], FALSE)
  /\ UNCHANGED <<max, objsInUse, idle, requestsBuf, requestsClosed, returnNotifs>>
  /\ UNCHANGED <<maintVars, runVars, countVars, held, checkedOut, nextRes, calls>>

\* ------------------------------------------------------------- Cleanup
\* a loop over pool.idle that misses the entry with the smallest key
DestructionsSkipFirst(mp) ==
  LET rest == {k \in DOMAIN mp : \E j \in DOMAIN mp : j < k} IN
  [r \in {mp[k] : k \in rest} |-> Cardinality({k \in rest : mp[k] = r})]

\* the destructor invocations of "for _, r := range pool.idle"
Destructions(mp) ==
  [r \in {mp[k] : k \in DOMAIN mp} |-> Cardinality({k \in DOMAIN mp : mp[k] = r})]

\* lines 49-54: close the request channel, destruct every idle resource.  It is
\* called once, by the pool's owner, when no Get or Put is in progress.
Cleanup ==
  /\ ~cleaned
  /\ \A t \in Callers : pc[t] = "idle"
  /\ requestsClosed' = TRUE
  /\ destructed' = Destructions(idle)
  /\ cleaned' = TRUE
  /\ ret' = NoRet
  /\ UNCHANGED <<max, objsInUse, idle, m, requestsBuf, returnNotifs>>
  /\ UNCHANGED <<maintVars, runVars, pc, held, checkedOut, nextRes, call, hist, calls>>
  /\ UNCHANGED <<anyPut, anyFail, ctrCalls, createDecisions>>

\* ------------------------------------------------------------- Next
Next ==
  \/ \E t \in active : GetLock(t)
  \/ \E t \in active : GetIdle(t)
  \/ \E t \in active : GetRequest(t)
  \/ \E t \in active : GetCreate(t)
  \/ \E t \in active : GetFactoryOk(t)
  \/ \E t \in active : GetFactoryErr(t)
  \/ \E t \in active : GetErrLock(t)
  \/ \E t \in active : GetRollback(t)
  \/ \E t \in active : MaintRecvRequest(t)
  \/ MaintTimeout
  \/ MaintSendErr
  \/ MaintExit
  \/ \E t \in active : \E x \in 1..nextRes : PutLock(t, x)
  \/ \E t \in active : PutAdmit(t)
  \/ \E t \in active : PutNotify(t)
  \/ \E t \in active : PutReject(t)
  \/ Cleanup

Spec == Init /\ [][Next]_vars

SpecSolo == InitSolo /\ [][Next]_vars

\* Scheduling: a goroutine that can take a step takes it (the Go scheduler is
\* preemptive), the constructor returns, the timer of time.After fires, and a
\* goroutine blocked in pool.m.Lock() or in "pool.requests <- req" is served
\* first-come first-served (mutex starvation mode, the channel's send queue),
\* so a step that is enabled again and again is taken.  Beginning a call
\* (GetLock, PutLock) and Cleanup are the callers' choice: no fairness.
CallerStep(t) ==
  \/ GetIdle(t) \/ GetRequest(t) \/ GetCreate(t)
  \/ GetFactoryOk(t) \/ GetFactoryErr(t) \/ GetRollback(t)
  \/ PutAdmit(t) \/ PutNotify(t) \/ PutReject(t)

MaintStep == MaintTimeout \/ MaintSendErr \/ MaintExit

Fairness ==
  /\ \A t \in Callers :
       /\ WF_vars(CallerStep(t))
       /\ SF_vars(GetErrLock(t))
       /\ SF_vars(MaintRecvRequest(t))
  /\ WF_vars(MaintStep)

InitFair ==
  /\ NewPool
  /\ active = Callers
  /\ budget = MaxFairCalls

SpecFair == InitFair /\ [][Next]_vars /\ Fairness

\* The handler on its own.  It starts where the code means it to run: a Get
\* waits for the request the maintainer holds, a Put has left a notification,
\* and the idle set holds zero to MaxKeys resources (a Get that ran in between
\* may have emptied it, Puts may have filled it).  No caller takes a step
\* while the handler runs.
IdleSets == {[k \in K |-> k + 1] : K \in SUBSET (0..(MaxKeys - 1))}

InitHandler ==
  /\ max \in 1..MaxCap
  /\ objsInUse \in MaxKeys..(MaxKeys + 1)
  /\ idle \in IdleSets
  /\ m = FALSE
  /\ requestsBuf = <<>>
  /\ requestsClosed = FALSE
  /\ returnNotifs = ReturnNotifsCap
  /\ mpc = "select"
  /\ mreq = 1
  /\ hnd = NoHandler
  /\ pc = [t \in Callers |-> IF t = 1 THEN "get_wait" ELSE "idle"]
  /\ held = [t \in Callers |-> {}]
  /\ checkedOut = {}
  /\ nextRes = MaxKeys + 1
  /\ active = Callers
  /\ budget = MaxCalls
  /\ call = [t \in Callers |->
               IF t = 1 THEN [NoCall EXCEPT !.op = "get", !.branch = "wait",
                                            !.cnt = objsInUse, !.timed = TRUE]
                        ELSE NoCall]
  /\ ret = NoRet
  /\ hist = <<>>
  /\ calls = 1
  /\ anyPut = TRUE
  /\ anyFail = FALSE
  /\ ctrCalls = 0
  /\ createDecisions = 0
  /\ destructed = <<>>
  /\ cleaned = FALSE

NextHandler ==
  \/ MaintRecvNotif
  \/ MaintLock
  \/ MaintRangeBody
  \/ MaintSendRes
  \/ MaintRangeDone
  \/ MaintTimeout
  \/ MaintSendErr

SpecHandler == InitHandler /\ [][NextHandler]_vars

\* pool.returnNotifs stays empty and no request is ever buffered
NoNotification == returnNotifs = 0 /\ LenRequests = 0

TypeOK ==
  /\ max \in Capacities
  /\ objsInUse \in Nat
  /\ m \in BOOLEAN
  /\ returnNotifs \in 0..ReturnNotifsCap
  /\ mreq \in Callers \cup {0}
  /\ checkedOut \subseteq 1..nextRes

\* ------------------------------------------------------------- properties
Range(f) == {f[k] : k \in DOMAIN f}
Constructing == {t \in Callers : pc[t] = "get_factory"}

\* C1: in a bounded pool on which Put was never called and whose constructor
\* never failed, the constructor was invoked at most max times, at most max
\* resources were handed out, a Get that returned a resource is one that
\* invoked the constructor once with the counter below max, and every other
\* Get returned ErrResourceUnavailable without invoking the constructor.
C1_AtMostCapacityConstructed ==
  (max # Unlimited /\ ~anyPut /\ ~anyFail) =>
     /\ ctrCalls <= max
     /\ Cardinality(UNION {held[t] : t \in Callers}) <= max
     /\ ret.op = "get" =>
          \/ ret.err = ErrNil /\ ret.ctr = 1 /\ ret.cnt < max
          \/ /\ ret.err = ErrResourceUnavailable
             /\ ret.res = defaultValue
             /\ ret.ctr = 0
             /\ ret.cnt >= max

C1_Witness ==
  /\ max # Unlimited /\ ~anyPut /\ ~anyFail
  /\ ctrCalls = max
  /\ ret.op = "get" /\ ret.err = ErrResourceUnavailable

\* C2: when Put(X) found the idle set empty and returned true, the Get that is
\* the next call returns X with a nil error and invokes no constructor.
C2_PutThenGetReturnsSame ==
  \A i \in 1..(Len(hist) - 1) :
     (hist[i].op = "put" /\ hist[i].ok /\ hist[i].idleN = 0 /\ hist[i+1].op = "get")
        => /\ hist[i+1].res = hist[i].arg
           /\ hist[i+1].err = ErrNil
           /\ hist[i+1].ctr = 0

C2_Witness ==
  \E i \in 1..(Len(hist) - 1) :
     /\ hist[i].op = "put" /\ hist[i].ok /\ hist[i].idleN = 0
     /\ hist[i+1].op = "get" /\ hist[i+1].res = hist[i].arg
     /\ hist[i].cnt > 0

\* the rounds of "Put(X), Get()" of the test of pool_test.go lines 107-112
Rounds == 3

\* the calls begun so far by the single caller: those that returned, then the
\* one in progress
CallsSoFar ==
  [j \in 1..calls |->
     IF j <= Len(hist) THEN [op |-> hist[j].op, arg |-> hist[j].arg]
     ELSE [op |-> call[1].op, arg |-> call[1].arg]]

\* the calls begun so far are rounds of Put(X) then Get(), for one X, and
\* Cleanup was not called
InRounds ==
  /\ active = {1}
  /\ ~cleaned
  /\ calls <= 2 * Rounds
  /\ \A j \in 1..calls :
       IF j % 2 = 1 THEN CallsSoFar[j].op = "put" /\ CallsSoFar[j].arg = CallsSoFar[1].arg
                    ELSE CallsSoFar[j].op = "get"

C4_PutRejectsAtCapacity ==
  (max # Unlimited /\ ret.op = "put") => (ret.ok <=> ret.cnt < max)

\* C5: in a bounded pool the idle set is at most as large as the in-use
\* counter, and the in-use counter is at most max.
C5_IdleWithinInUseWithinMax ==
  max # Unlimited => (LenIdle <= objsInUse /\ objsInUse <= max)

\* C6: Cleanup invokes the destructor exactly once for each resource of the
\* idle set, and never for a resource a caller holds.
C6_CleanupDestructsIdleOnce ==
  cleaned =>
     /\ DOMAIN destructed = Range(idle)
     /\ \A r \in DOMAIN destructed : destructed[r] = 1
     /\ \A t \in Callers : held[t] \cap DOMAIN destructed = {}

C6_Witness ==
  /\ cleaned
  /\ LenIdle >= 2
  /\ ctrCalls > 0
  /\ \E t \in Callers : held[t] # {}

\* C7: in an unlimited pool no Get registers a request or returns
\* ErrResourceUnavailable: it returns an idle resource or the constructor's
\* result; and every Put returns true.
C7_UnlimitedNeverBlocks ==
  max = Unlimited =>
     /\ \A t \in Callers : pc[t] \notin {"get_send", "get_wait"}
     /\ mpc \in {"range", "done"} /\ mreq = 0
     /\ ret.op = "get" =>
          /\ ret.err # ErrResourceUnavailable
          /\ ret.branch \in {"idle", "create"}
     /\ ret.op = "put" => ret.ok

C7_Witness ==
  /\ max = Unlimited
  /\ objsInUse > MaxCap
  /\ ret.op = "put" /\ ret.ok

\* C8: in a bounded pool, when Put admits a resource while the maintainer holds
\* a pending request, a return notification is there for the maintainer once
\* Put has returned.
C8_PutNotifiesMaintainer ==
  (max # Unlimited /\ ret.op = "put" /\ ret.ok /\ ret.pend /\ mpc = "select")
     => returnNotifs > 0

\* C9: a Get whose constructor failed returns the constructor's error, has
\* invoked the constructor once, leaves the in-use counter as it would be
\* without the call and has not changed the idle set.
C9_ConstructorErrorRolledBack ==
  (ret.op = "get" /\ ret.failed) =>
     /\ ret.err = creationErr
     /\ ret.res = defaultValue
     /\ ret.ctr = 1
     /\ ret.delta = 0
     /\ ~ret.touched

C9_Witness ==
  /\ ret.op = "get" /\ ret.failed /\ ret.err = creationErr
  /\ objsInUse > 0

\* the constructor invocations are as many as the Gets that found the idle set
\* empty and the pool unlimited or its counter below max (a Get that is about
\* to invoke the constructor counted)
CtorCountMatches == ctrCalls + Cardinality(Constructing) = createDecisions

\* C10 as stated: the constructor is never invoked while the idle set is
\* non-empty, and its invocations are as many as the Gets that found the idle
\* set empty and room for a new resource.
C10_NoCtorWhileIdleNonEmpty ==
  /\ ret.ctrIdle = 0
  /\ \A t \in Callers : call[t].ctrIdle = 0
  /\ CtorCountMatches

\* C10 amended: the constructor is invoked only by a Get that found the idle
\* set empty, and the pool unlimited or its counter below max, when it held the
\* lock; its invocations are as many as those Gets.
C10_CtorOnlyAfterEmptyCheck ==
  /\ ret.ctr > 0 =>
       /\ ret.branch = "create" /\ ret.idleN = 0
       /\ max = Unlimited \/ ret.cnt < max
  /\ \A t \in Callers : call[t].ctr > 0 =>
       /\ call[t].branch = "create" /\ call[t].idleN = 0
       /\ max = Unlimited \/ call[t].cnt < max
  /\ CtorCountMatches

C10_Witness ==
  /\ ret.op = "get" /\ ret.ctr = 1 /\ ret.ctrIdle > 0
  /\ ret.idleN = 0

\* C11: a Get that blocks returns ErrResourceUnavailable no later than one wait
\* timeout after it began to wait: no whole timeout passes before its own
\* timer starts, also when several Gets are blocked.
C11_BlockedGetWaitsOneTimeout ==
  /\ (ret.op = "get" /\ ret.err = ErrResourceUnavailable) => ret.waited <= 1
  /\ \A t \in Callers : pc[t] = "get_send" => call[t].waited = 0

\* C12: when no Get is in the middle of a constructor call, the in-use counter
\* is the number of idle resources plus the number of resources checked out.
C12_InUseIsIdlePlusCheckedOut ==
  (\A t \in Callers : pc[t] \notin {"get_factory", "get_err_lock", "get_err_cs"})
     => objsInUse = LenIdle + Cardinality(checkedOut)

\* C13: a Put that returns false changes nothing: on the step that rejects, and
\* on every step taken while that Put holds the lock, the idle set, the in-use
\* counter, the notification channel and the record of destructor invocations
\* stay as they are, and the caller still owns the resource.
C13_RejectedPutChangesNothing ==
  [][/\ (ret'.op = "put" /\ ~ret'.ok) =>
          /\ idle' = idle /\ objsInUse' = objsInUse
          /\ returnNotifs' = returnNotifs /\ destructed' = destructed
          /\ ret'.arg \in held'[ret'.t]
          /\ ret'.arg \notin DOMAIN destructed'
     /\ \A t \in Callers :
          (pc[t] = "put_cs" /\ pc'[t] = "put_cs") =>
             /\ idle' = idle /\ objsInUse' = objsInUse
             /\ returnNotifs' = returnNotifs /\ destructed' = destructed]_vars

C13_Witness ==
  /\ ret.op = "put" /\ ~ret.ok
  /\ ret.arg \in held[ret.t]
  /\ LenIdle > 0

\* C14: each resource admitted by a Put is handed out at most once: no resource
\* is owned by two callers, no resource a caller owns is still in the idle set,
\* no resource sits in the idle set under two keys, and the resource a Get has
\* just taken from the idle set is neither in it nor owned by another caller.
C14_IdleEntryHandedOutOnce ==
  /\ \A t \in Callers : \A u \in Callers \ {t} : held[t] \cap held[u] = {}
  /\ \A t \in Callers : held[t] \cap Range(idle) = {}
  /\ \A j \in DOMAIN idle : \A k \in DOMAIN idle : idle[j] = idle[k] => j = k
  /\ (ret.op = "get" /\ ret.branch = "idle") =>
        /\ ret.res \notin Range(idle)
        /\ \A u \in Callers \ {ret.t} : ret.res \notin held[u]

C14_Witness ==
  /\ ret.op = "get" /\ ret.branch = "idle"
  /\ \E u \in Callers \ {ret.t} : held[u] # {} /\ held[u] \subseteq checkedOut
  /\ ret.res \in held[ret.t]

\* C15: a resource that Put admitted stays in the idle set until a Get or the
\* maintainer removes it: no step replaces the resource stored under a key of
\* the idle set by another one.
C15_PutNeverOverwritesIdle ==
  [][\A k \in DOMAIN idle : k \in DOMAIN idle' => idle'[k] = idle[k]]_vars

\* C16: while Cleanup has not been called, every call of Get and every call of
\* Put returns, and the lock, once taken, is released, whatever the
\* interleaving; a Put that has stored its resource can always take its last
\* step: it never has to wait for the maintainer to empty pool.returnNotifs.
C16_EveryCallReturns ==
  /\ \A t \in Callers : (pc[t] # "idle") ~> (pc[t] = "idle")
  /\ m ~> ~m
  /\ [](\A t \in Callers :
          pc[t] = "put_notify" => (LenRequests > 0 => returnNotifs < ReturnNotifsCap))

C16_Witness ==
  /\ ret.op = "get" /\ ret.branch = "wait" /\ ret.err = ErrResourceUnavailable
  /\ ret.waited >= 2
  /\ \A t \in Callers : pc[t] = "idle"
  /\ ~cleaned

\* C17: Get and Put never invoke the destructor, whatever their outcome: as
\* long as Cleanup has not run no resource has been destructed, and no step
\* other than Cleanup changes the record of destructor invocations.
C17_OnlyCleanupDestructs ==
  /\ [](~cleaned => DOMAIN destructed = {})
  /\ [][destructed' # destructed => (~cleaned /\ cleaned')]_vars

C17_Witness ==
  /\ ~cleaned
  /\ ret.op = "put" /\ ~ret.ok
  /\ anyFail
  /\ LenIdle > 0
  /\ DOMAIN destructed = {}

\* C18: in a bounded pool whose constructor has not failed, after a Put that
\* returned false every later Put returns false and every later Get that finds
\* the idle set empty fails with ErrResourceUnavailable.
C18_NoCapacityGivenBack ==
  (max # Unlimited /\ ~anyFail) =>
     \A i \in 1..Len(hist) : \A j \in 1..Len(hist) :
        (i < j /\ hist[i].op = "put" /\ ~hist[i].ok) =>
           /\ hist[j].op = "put" => ~hist[j].ok
           /\ (hist[j].op = "get" /\ hist[j].idleN = 0) =>
                 hist[j].err = ErrResourceUnavailable

C18_Witness ==
  /\ max # Unlimited /\ ~anyFail
  /\ \E i \in 1..Len(hist) : \E j \in 1..Len(hist) : \E k \in 1..Len(hist) :
       /\ i < j /\ i < k
       /\ hist[i].op = "put" /\ ~hist[i].ok
       /\ hist[j].op = "get" /\ hist[j].idleN > 0 /\ hist[j].err = ErrNil
       /\ hist[k].op = "get" /\ hist[k].idleN = 0
       /\ hist[k].err = ErrResourceUnavailable

====
